---- MODULE Spec2Model ----
(***************************************************************************)
(* Model of the image degradation pipeline of memethis:                    *)
(*   src/src/layouts/LogicHelper.ts   BuildMainLayoutLogic (the logic API) *)
(*   src/src/main.tsx                 MainLayout, UploadLayout, Preview    *)
(*   src/src/App.tsx                  AppComponent (generateMeme)          *)
(* The engine (FFmpeg compiled to WebAssembly) is an external collaborator *)
(* with a private virtual filesystem; its operations are asynchronous, so  *)
(* each awaited operation of an invocation is one step of the model and    *)
(* steps of overlapping invocations interleave.  React (createRoot,        *)
(* main.tsx:1-7) batches the setState calls of a handler: updates queued   *)
(* with updateStateAtPath are applied, in call order, when the handler's   *)
(* synchronous part ends, and owner.state read inside the handler is the   *)
(* state committed before it.                                              *)
(***************************************************************************)
EXTENDS Integers, Sequences, FiniteSets, TLC

\* ------------------------------------------------------------------ bounds
MaxInvocations == 2     \* calls of processImageWithFFmpeg that get past line 61
MaxImages == 2          \* distinct images the user can supply
MaxAmount == 7          \* amounts -2..MaxAmount run through the pipeline alone
MaxDim == 6             \* pictures of 1..MaxDim by 1..MaxDim pixels
MaxArgs == 3            \* arguments of one merge call

\* ------------------------------------------------- program constants
DefaultAmount == 3      \* LogicHelper.ts:57  amount: number = 3

\* --------------------------------------------------------- JS values
\* Every value held in a string-or-number-or-null position is a record of
\* one shape, so that any two of them can be compared.
Null == [kind |-> "null", id |-> 0]
Undefined == [kind |-> "undefined", id |-> 0]
EmptyStr == [kind |-> "str", id |-> 0]
NaN == [kind |-> "NaN", id |-> 0]
Num(n) == [kind |-> "num", id |-> n]
DataURL(i) == [kind |-> "dataurl", id |-> i]
BlobURL(k) == [kind |-> "blob", id |-> k]

Images == 1..MaxImages

\* The pixel dimensions of the picture behind DataURL(i): the pictures are
\* numbered by their dimensions, Width 1..MaxDim by Height 1..MaxDim.
Width(i) == ((i - 1) % MaxDim) + 1
Height(i) == ((i - 1) \div MaxDim) + 1
Pictures == 1..(MaxDim * MaxDim)

\* A check for null alone (fileSrc == null), which lets '' through.
IsNullish(v) == v.kind \in {"null", "undefined"}

\* if (!fileSrc): null, undefined and the empty string are falsy.
Falsy(v) == v.kind \in {"null", "undefined", "str"}

\* The number a value yields in arithmetic (1 / amount, amount - 3): a data
\* URL string is not numeric.
ToNumber(v) == IF v.kind = "num" THEN v ELSE NaN

\* a ?? b
Coalesce(a, b) == IF a.kind \in {"null", "undefined"} THEN b ELSE a

\* ------------------------------------------------- virtual file names
NoName == [kind |-> "", n |-> 0]
InputPng == [kind |-> "input.png", n |-> 0]
\* generateMeme's intermediate file
TmpJpg == [kind |-> "tmp1.jpg", n |-> 0]
\* `${Date.now()}-FILE-${Math.random().toString(36).substring(2, 15)}.png`:
\* the k-th generated name; the random token keeps generated names distinct.
OutputName(k) == [kind |-> "out", n |-> k]

\* --------------------------------------------------- file contents
\* img: the image the bytes come from; by: the invocation that wrote them.
\* w, h: the pixel dimensions of the picture the bytes encode.
NoData == [type |-> "none", img |-> 0, by |-> 0, amount |-> Null, quality |-> Null,
           w |-> 0, h |-> 0]
RawBytes(i, k) == [type |-> "raw", img |-> i, by |-> k, amount |-> Null, quality |-> Null,
                   w |-> Width(i), h |-> Height(i)]

Min(a, b) == IF a < b THEN a ELSE b

\* The quality without the cap of Math.min.
QualityUncapped(amount) ==
    IF amount.kind = "num" THEN Num(40 + (amount.id - 3) * 5) ELSE NaN

\* const quality = Math.min(40 + (amount - 3) * 5, 50);  NaN for a non-number.
Quality(amount) ==
    IF amount.kind = "num" THEN Num(Min(40 + (amount.id - 3) * 5, 50)) ELSE NaN

VARIABLES
    mounted,                \* the component in use: "MainLayout" or "AppComponent"
    state,                  \* its committed React state
    ffmpegInstance,         \* owner.ffmpegInstance / this.ffmpeg: "null" or "FFmpeg"
    engineLoaded,           \* the FFmpeg object has finished load()
    loadCalled,             \* loadFFmpegInstance has been called
    ffmpegFileOutputName,   \* owner.ffmpegFileOutputName / this.currentFILEName
    fs,                     \* the engine's virtual filesystem: name -> content
    inv,                    \* the invocations of processImageWithFFmpeg, in start order
    readers,                \* FileReaders that have not yet fired onload
    lastCall,               \* the call of processImageWithFFmpeg made by the last step
    teardown,               \* componentWillUnmount: whether it ran, and its deleteFile
    rendered                \* the last class attribute composed with merge

vars == <<mounted, state, ffmpegInstance, engineLoaded, loadCalled, ffmpegFileOutputName,
          fs, inv, readers, lastCall, teardown, rendered>>

\* Nothing has been rendered through merge yet.
NotRendered == [by |-> "none", args |-> <<>>, className |-> <<>>]

\* ------------------------------------------------------ React state
InitialState ==
    [userInput |-> [uploadedImageSource |-> Null, isDragging |-> FALSE],
     ffmpeg |-> [isProcessing |-> FALSE, commandFileResult |-> Null]]

\* The reducer of updateStateAtPath: clone, walk keys[0..n-2], assign the leaf.
SetAtPath(st, keys, value) ==
    IF Len(keys) = 1
    THEN [st EXCEPT ![keys[1]] = value]
    ELSE [st EXCEPT ![keys[1]] = [st[keys[1]] EXCEPT ![keys[2]] = value]]

RECURSIVE ApplyUpdates(_, _)
\* React applies the queued functional updates in call order.
ApplyUpdates(st, ups) ==
    IF ups = <<>> THEN st
    ELSE ApplyUpdates(SetAtPath(st, Head(ups)[1], Head(ups)[2]), Tail(ups))

\* componentWillUnmount has not run / has run.
NoServed == [k \in {} |-> 0]
NoTeardown == [status |-> "none", name |-> NoName, seen |-> NoServed, allDone |-> FALSE]
Unmounted == teardown.status # "none"

\* What a handler's queued updates commit: setState on an unmounted
\* component is ignored.
Commit(st, ups) == IF Unmounted THEN st ELSE ApplyUpdates(st, ups)

PathSource == <<"userInput", "uploadedImageSource">>
PathDragging == <<"userInput", "isDragging">>
PathProcessing == <<"ffmpeg", "isProcessing">>
PathResult == <<"ffmpeg", "commandFileResult">>

\* ------------------------------------------------ virtual filesystem
EmptyFS == [n \in {} |-> NoData]
Exists(f, name) == name \in DOMAIN f
FsWrite(f, name, data) == [n \in (DOMAIN f) \cup {name} |-> IF n = name THEN data ELSE f[n]]
\* A deleteFile that leaves the file in place.
FsKeep(f, name) == f

FsDelete(f, name) == [n \in (DOMAIN f) \ {name} |-> f[n]]

\* The engine executes the filter chain only for a numeric amount >= 1:
\* `scale=iw*${1/amount}` is iw*Infinity for 0, a negative size below 0 and
\* iw*NaN for a non-number; ffmpeg then exits non-zero and writes no output.
ExecProduces(amount) == amount.kind = "num" /\ amount.id >= 1

\* ffmpeg -i input.png -vf scale..,scale..,format=yuv420p -q:v <quality> <output>
\* run by invocation k on the content of the input file.
\* The output size of one scale filter whose expression evaluates to
\* num / den for the input size d: ffmpeg truncates the value to an int and
\* takes the input size when that is 0.  (For the amounts 1..8 and sizes
\* below 5000 the doubles iw*(1/amount) and iw/(1/amount) truncate to the
\* same ints as the exact quotients.)
ScaleEval(d, num, den) == IF num \div den = 0 THEN d ELSE num \div den

\* scale=iw*S:ih*S,scale=iw/S:ih/S with S = 1/amount (LogicHelper), and
\* scale=iw/3:ih/3,scale=iw*3:ih*3 (generateMeme, amount 3): the size d
\* goes through the first filter, its output through the second.
ScaleChain(d, amount) ==
    LET down == ScaleEval(d, d, amount.id)
    IN  ScaleEval(down, down * amount.id, 1)

ExecOutput(input, amount, quality, k) ==
    [type |-> "degraded", img |-> input.img, by |-> k, amount |-> amount,
     quality |-> quality,
     w |-> ScaleChain(input.w, amount), h |-> ScaleChain(input.h, amount)]

\* ------------------------------------------------------- invocations
\* pc of an invocation: the awaited operation it is suspended on.  "write"
\* covers lines 78-83 (fetch, blob, arrayBuffer, writeFile): the fetch of a
\* data URL touches nothing the other steps read or write.
\* generateMeme has two more awaited operations (its second exec and
\* deleteFile('tmp1.jpg')); started without a handle ("noEngine") it awaits
\* the fetch alone and ends without a result ("noResult").
Terminal == {"notReady", "done", "failed", "noResult"}
InFlightPcs == {"write", "exec", "readFile", "deleteFile", "exec2", "deleteTmp", "noEngine"}

\* One call of processImageWithFFmpeg that got past line 61.  Its own output
\* name (lines 63-65) is OutputName(k) for the k-th such call.
NewInvocation(pc, fileSrc, amount) ==
    [pc |-> pc, fileSrc |-> fileSrc, amount |-> amount,
     quality |-> Null,            \* the -q:v argument given to exec
     execOut |-> NoName,          \* the output argument given to exec
     readName |-> NoName,         \* the name given to readFile
     data |-> NoData,             \* what readFile returned
     fsOps |-> 0,                 \* engine operations that succeeded
     reset |-> "none"]            \* reset ran "during" it / "after" it ended

\* An invocation that has ended keeps only what it leaves behind: how it
\* ended, how far it got, and (published) its image and the bytes behind
\* its object URL.
Ended(r, pc) ==
    [NewInvocation(pc, IF pc = "done" THEN r.fileSrc ELSE Null, Null)
        EXCEPT !.data = IF pc = "done" THEN r.data ELSE NoData, !.fsOps = r.fsOps,
               !.reset = r.reset]

InFlight(k) == inv[k].pc \in InFlightPcs

\* The invocations as reset() finds them: it touches none of them; each
\* records whether reset ran while it was in flight or after it had ended.
SeenByReset ==
    [k \in DOMAIN inv |->
        [inv[k] EXCEPT !.reset = IF InFlight(k) THEN "during"
                                 ELSE IF @ = "none" THEN "after" ELSE @]]

NoCall == [via |-> "none", fileSrc |-> Null, amount |-> Null, delivered |-> Null,
           outcome |-> "none"]
\* The last step was reset(): it calls no degrade entry point.
ResetCall == [NoCall EXCEPT !.via = "reset"]

\* The state after construction (BuildMainLayoutLogic(owner) has returned,
\* loadFFmpegInstance has not been called yet).
Init ==
    /\ mounted = "MainLayout"
    /\ state = InitialState
    /\ ffmpegInstance = "null"
    /\ engineLoaded = FALSE
    /\ loadCalled = FALSE
    /\ ffmpegFileOutputName = NoName
    /\ fs = EmptyFS
    /\ inv = <<>>
    /\ readers = {}
    /\ rendered = NotRendered
    /\ lastCall = NoCall
    /\ teardown = NoTeardown

\* ------------------------------------------------ engine lifecycle
\* api.loadFFmpegInstance up to its first await: the handle is constructed.
LoadFFmpegInstance ==
    /\ mounted = "MainLayout"
    /\ ~Unmounted
    /\ UNCHANGED <<mounted, teardown>>
    /\ ~loadCalled
    /\ loadCalled' = TRUE
    /\ ffmpegInstance' = "FFmpeg"
    /\ UNCHANGED rendered
    /\ lastCall' = NoCall
    /\ UNCHANGED <<state, engineLoaded, ffmpegFileOutputName, fs, inv, readers>>

\* await owner.ffmpegInstance.load(...) resolves.
LoadDone ==
    /\ mounted = "MainLayout"
    /\ UNCHANGED <<mounted, teardown>>
    /\ loadCalled
    /\ ~engineLoaded
    /\ engineLoaded' = TRUE
    /\ UNCHANGED rendered
    /\ lastCall' = NoCall
    /\ UNCHANGED <<state, ffmpegInstance, loadCalled, ffmpegFileOutputName, fs, inv, readers>>

\* ------------------------------------------- processImageWithFFmpeg
\* The synchronous part of api.processImageWithFFmpeg (lines 56-78), run
\* inside a handler that has already queued the state updates `pre`.
\* `delivered` is the data URL the handler's FileReader produced, if any.
CallProcess(via, pre, amountArg, sourceArg, delivered) ==
    LET fileSrc == Coalesce(sourceArg, state.userInput.uploadedImageSource)
        amount == ToNumber(IF amountArg.kind = "undefined" THEN Num(DefaultAmount)
                                                               ELSE amountArg)
        call(outcome) == [via |-> via, fileSrc |-> fileSrc, amount |-> amount,
                          delivered |-> delivered, outcome |-> outcome]
    IN  IF Falsy(fileSrc)
        THEN \* if (!fileSrc) return;
             /\ state' = Commit(state, pre)
             /\ UNCHANGED rendered
             /\ lastCall' = call("InvalidInput")
             /\ UNCHANGED <<ffmpegFileOutputName, inv>>
        ELSE /\ Len(inv) < MaxInvocations
             /\ ffmpegFileOutputName' = OutputName(Len(inv) + 1)
             /\ state' = Commit(state, pre \o << <<PathProcessing, TRUE>> >>)
             /\ IF ffmpegInstance = "null"
                THEN \* if (!ffmpeg) { ...; return alert(...) }
                     /\ inv' = Append(inv, Ended(NewInvocation("notReady", fileSrc, amount),
                                                  "notReady"))
                     /\ UNCHANGED rendered
                     /\ lastCall' = call("EngineNotReady")
                ELSE \* const response = await fetch(fileSrc);
                     /\ inv' = Append(inv, NewInvocation("write", fileSrc, amount))
                     /\ UNCHANGED rendered
                     /\ lastCall' = call("started")

\* A caller of the logic API: processImageWithFFmpeg(amount?, source?).
ProcessImageWithFFmpeg(amountArg, sourceArg) ==
    /\ mounted = "MainLayout"
    /\ UNCHANGED <<mounted, teardown>>
    /\ CallProcess("api", <<>>, amountArg, sourceArg, Null)
    /\ UNCHANGED <<ffmpegInstance, engineLoaded, loadCalled, fs, readers>>

\* fetch, blob and arrayBuffer resolve and ffmpeg.writeFile('input.png', ..)
\* resolves; lines 86-103 compute the parameters, read
\* owner.ffmpegFileOutputName into `output` and issue exec.
WriteFileDone(k) ==
    /\ mounted = "MainLayout"
    /\ UNCHANGED <<mounted, teardown>>
    /\ inv[k].pc = "write"
    /\ engineLoaded
    /\ fs' = FsWrite(fs, InputPng, RawBytes(inv[k].fileSrc.id, k))
    /\ inv' = [inv EXCEPT ![k].pc = "exec",
                          ![k].quality = Quality(inv[k].amount),
                          ![k].execOut = ffmpegFileOutputName,
                          ![k].fsOps = @ + 1]
    /\ UNCHANGED rendered
    /\ lastCall' = NoCall
    /\ UNCHANGED <<state, ffmpegInstance, engineLoaded, loadCalled, ffmpegFileOutputName,
                   readers>>

\* exec resolves (with ffmpeg's exit code, which the code ignores); line 108
\* issues readFile(owner.ffmpegFileOutputName).
ExecDone(k) ==
    /\ mounted = "MainLayout"
    /\ UNCHANGED <<mounted, teardown>>
    /\ inv[k].pc = "exec"
    /\ engineLoaded
    /\ fs' = IF Exists(fs, InputPng) /\ ExecProduces(inv[k].amount)
             THEN FsWrite(fs, inv[k].execOut,
                          ExecOutput(fs[InputPng], inv[k].amount, inv[k].quality, k))
             ELSE fs
    /\ inv' = [inv EXCEPT ![k].pc = "readFile",
                          ![k].readName = ffmpegFileOutputName,
                          ![k].fsOps = @ + 1]
    /\ UNCHANGED rendered
    /\ lastCall' = NoCall
    /\ UNCHANGED <<state, ffmpegInstance, engineLoaded, loadCalled, ffmpegFileOutputName,
                   readers>>

\* readFile resolves with the bytes of the file (a Uint8Array or a string,
\* so resultUint8Array is an object and the branch of lines 116-121 is not
\* taken; a missing file makes readFile reject); lines 123-129 wrap the
\* bytes in an object URL and issue deleteFile('input.png').
ReadFileDone(k) ==
    /\ mounted = "MainLayout"
    /\ UNCHANGED <<mounted, teardown>>
    /\ inv[k].pc = "readFile"
    /\ engineLoaded
    /\ Exists(fs, inv[k].readName)
    /\ inv' = [inv EXCEPT ![k].pc = "deleteFile",
                          ![k].data = fs[inv[k].readName],
                          ![k].fsOps = @ + 1]
    /\ UNCHANGED rendered
    /\ lastCall' = NoCall
    /\ UNCHANGED <<state, ffmpegInstance, engineLoaded, loadCalled, ffmpegFileOutputName,
                   fs, readers>>

\* deleteFile('input.png') resolves; tmpFiles is empty; lines 134-135
\* publish the result and clear the flag.
DeleteFileDone(k) ==
    /\ mounted = "MainLayout"
    /\ UNCHANGED <<mounted, teardown>>
    /\ inv[k].pc = "deleteFile"
    /\ engineLoaded
    /\ Exists(fs, InputPng)
    /\ fs' = FsDelete(fs, InputPng)
    /\ state' = Commit(state, << <<PathResult, BlobURL(k)>>, <<PathProcessing, FALSE>> >>)
    /\ inv' = [inv EXCEPT ![k] = Ended([@ EXCEPT !.fsOps = @ + 1], "done")]
    /\ UNCHANGED rendered
    /\ lastCall' = NoCall
    /\ UNCHANGED <<ffmpegInstance, engineLoaded, loadCalled, ffmpegFileOutputName,
                   readers>>

\* An awaited operation rejects (the fetch fails, the engine is not loaded,
\* the file to read or delete does not exist, the engine aborts): the async
\* function ends with that exception, which nothing catches.
OperationFails(k) ==
    /\ mounted = "MainLayout"
    /\ UNCHANGED <<mounted, teardown>>
    /\ InFlight(k)
    /\ inv' = [inv EXCEPT ![k] = Ended(@, "failed")]
    /\ UNCHANGED rendered
    /\ lastCall' = NoCall
    /\ UNCHANGED <<state, ffmpegInstance, engineLoaded, loadCalled, ffmpegFileOutputName,
                   fs, readers>>

\* ------------------------------------------------------ input paths
\* UploadLayout's <input onChange>, api.handleDrop and api.onPasteImage each
\* start a FileReader: reader.readAsDataURL(file).
StartReader(via, i) ==
    /\ Cardinality(readers) + Len(inv) < MaxInvocations
    /\ [via |-> via, img |-> i] \notin readers
    /\ readers' = readers \cup {[via |-> via, img |-> i]}

\* UploadLayout.render onChange: if (file) reader.readAsDataURL(file)
FileInputChange(hasFile, i) ==
    /\ mounted = "MainLayout"
    /\ ~Unmounted
    /\ UNCHANGED <<mounted, teardown>>
    /\ IF hasFile THEN StartReader("picker", i) ELSE UNCHANGED readers
    /\ UNCHANGED rendered
    /\ lastCall' = NoCall
    /\ UNCHANGED <<state, ffmpegInstance, engineLoaded, loadCalled, ffmpegFileOutputName,
                   fs, inv>>

\* reader.onload -> onFileChange(src) of MainLayout.render:
\*   updateStateAtPath('userInput.uploadedImageSource', src);
\*   this.processImageWithFFmpeg(src)  ==  logic.processImageWithFFmpeg(src)
\* so src arrives in the `amount` position and `source` is undefined.
OnFileChange(r) ==
    /\ mounted = "MainLayout"
    /\ UNCHANGED <<mounted, teardown>>
    /\ r \in readers /\ r.via = "picker"
    /\ readers' = readers \ {r}
    /\ CallProcess("picker", << <<PathSource, DataURL(r.img)>> >>,
                   DataURL(r.img), Undefined, DataURL(r.img))
    /\ UNCHANGED <<ffmpegInstance, engineLoaded, loadCalled, fs>>

\* api.handleDrop, called by MainLayout.handleDrop without an amount.
HandleDrop(hasFile, i) ==
    /\ mounted = "MainLayout"
    /\ ~Unmounted
    /\ UNCHANGED <<mounted, teardown>>
    /\ state' = Commit(state, << <<PathDragging, FALSE>> >>)
    /\ IF hasFile THEN StartReader("drop", i) ELSE UNCHANGED readers
    /\ UNCHANGED rendered
    /\ lastCall' = NoCall
    /\ UNCHANGED <<ffmpegInstance, engineLoaded, loadCalled, ffmpegFileOutputName,
                   fs, inv>>

\* reader.onload of api.handleDrop (lines 162-168); amount is undefined.
DropOnload(r) ==
    /\ mounted = "MainLayout"
    /\ UNCHANGED <<mounted, teardown>>
    /\ r \in readers /\ r.via = "drop"
    /\ readers' = readers \ {r}
    /\ CallProcess("drop", << <<PathSource, DataURL(r.img)>>, <<PathResult, Null>>,
                              <<PathProcessing, FALSE>> >>,
                   Undefined, DataURL(r.img), DataURL(r.img))
    /\ UNCHANGED <<ffmpegInstance, engineLoaded, loadCalled, fs>>

\* A clipboard item: its type starts with 'image/' or not, and getAsFile()
\* yields an image (file > 0) or null (file = 0).
ClipboardItems ==
    {[image |-> FALSE, file |-> 0], [image |-> TRUE, file |-> 0]}
        \cup {[image |-> TRUE, file |-> i] : i \in Images}

RECURSIVE FirstImageItem(_)
\* A loop that stops at the first image item, whether or not it yields a file.
FirstImageItem(items) ==
    IF items = <<>> THEN 0
    ELSE IF Head(items).image THEN Head(items).file
    ELSE FirstImageItem(Tail(items))

RECURSIVE FirstImageFile(_)
\* The loop of api.onPasteImage: the first image item that yields a file;
\* image items without a file are skipped (continue), then break.
FirstImageFile(items) ==
    IF items = <<>> THEN 0
    ELSE IF Head(items).image /\ Head(items).file # 0 THEN Head(items).file
    ELSE FirstImageFile(Tail(items))

\* The file a paste event hands to a FileReader, 0 for none:
\* if (!items) return; otherwise the loop.
PastedFile(hasItems, items) == IF hasItems THEN FirstImageFile(items) ELSE 0

\* api.onPasteImage, registered as the window 'paste' listener: the event
\* is its only argument, so amount is undefined.  hasItems = FALSE is
\* e.clipboardData?.items being undefined.
OnPasteImage(hasItems, items) ==
    /\ mounted = "MainLayout"
    /\ ~Unmounted
    /\ UNCHANGED <<mounted, teardown>>
    /\ IF PastedFile(hasItems, items) # 0
       THEN StartReader("paste", PastedFile(hasItems, items))
       ELSE UNCHANGED readers
    /\ UNCHANGED rendered
    /\ lastCall' = NoCall
    /\ UNCHANGED <<state, ffmpegInstance, engineLoaded, loadCalled, ffmpegFileOutputName,
                   fs, inv>>

\* reader.onload of api.onPasteImage (lines 186-195).
PasteOnload(r) ==
    /\ mounted = "MainLayout"
    /\ UNCHANGED <<mounted, teardown>>
    /\ r \in readers /\ r.via = "paste"
    /\ readers' = readers \ {r}
    /\ CallProcess("paste", << <<PathResult, EmptyStr>>, <<PathProcessing, FALSE>>,
                               <<PathSource, DataURL(r.img)>> >>,
                   Undefined, DataURL(r.img), DataURL(r.img))
    /\ UNCHANGED <<ffmpegInstance, engineLoaded, loadCalled, fs>>

\* A reset that does not clear the result.
ResetKeepsResult ==
    /\ mounted = "MainLayout"
    /\ ~Unmounted
    /\ UNCHANGED <<mounted, teardown>>
    /\ state' = Commit(state, << <<PathDragging, FALSE>>, <<PathSource, Null>> >>)
    /\ inv' = SeenByReset
    /\ UNCHANGED rendered
    /\ lastCall' = ResetCall
    /\ UNCHANGED <<ffmpegInstance, engineLoaded, loadCalled, ffmpegFileOutputName,
                   fs, readers>>

\* api.reset
Reset ==
    /\ mounted = "MainLayout"
    /\ ~Unmounted
    /\ UNCHANGED <<mounted, teardown>>
    /\ state' = Commit(state, << <<PathDragging, FALSE>>, <<PathSource, Null>>,
                                  <<PathResult, Null>> >>)
    /\ inv' = SeenByReset
    /\ UNCHANGED rendered
    /\ lastCall' = ResetCall
    /\ UNCHANGED <<ffmpegInstance, engineLoaded, loadCalled, ffmpegFileOutputName,
                   fs, readers>>

\* onDragEnter / onDragExit of MainLayout.render
SetDragging(b) ==
    /\ mounted = "MainLayout"
    /\ ~Unmounted
    /\ UNCHANGED <<mounted, teardown>>
    /\ state' = Commit(state, << <<PathDragging, b>> >>)
    /\ UNCHANGED rendered
    /\ lastCall' = NoCall
    /\ UNCHANGED <<ffmpegInstance, engineLoaded, loadCalled, ffmpegFileOutputName,
                   fs, inv, readers>>

\* ---------------------------------------------------------- teardown
\* The engine serves the requests of one FFmpeg object in the order they
\* were sent: a request sent now is served after the engine operation each
\* invocation is suspended on.  fsOps of those invocations, by invocation.
Outstanding ==
    [k \in {j \in DOMAIN inv : inv[j].pc \in InFlightPcs \ {"write", "noEngine"}}
        |-> inv[k].fsOps]

\* Every invocation so far has completed successfully (recorded by the
\* teardown for reference: nothing in the code reads it).
AllDone == \A k \in DOMAIN inv : inv[k].pc = "done"

\* if (handle) { handle.deleteFile(<last output name>); handle = null }
\* The promise of deleteFile is neither awaited nor caught.  On an FFmpeg
\* object that has not finished load() it rejects.
Unmount ==
    /\ ~Unmounted
    /\ IF ffmpegInstance = "null"
       THEN /\ teardown' = [NoTeardown EXCEPT !.status = "noop", !.allDone = AllDone]
            /\ UNCHANGED ffmpegInstance
       ELSE /\ teardown' = [status |-> IF engineLoaded THEN "pending" ELSE "rejected",
                            name |-> ffmpegFileOutputName,
                            seen |-> IF engineLoaded THEN Outstanding ELSE NoServed,
                            allDone |-> AllDone]
            /\ ffmpegInstance' = "null"
    /\ UNCHANGED rendered
    /\ lastCall' = NoCall
    /\ UNCHANGED <<mounted, state, engineLoaded, loadCalled, ffmpegFileOutputName, fs, inv,
                   readers>>

\* MainLayout.componentWillUnmount
ComponentWillUnmount ==
    /\ mounted = "MainLayout"
    /\ Unmount

\* The engine serves the deleteFile of the teardown: it unlinks the file, or
\* the promise rejects because no file has that name ('' included).
TeardownDeleteServed ==
    /\ teardown.status = "pending"
    /\ \A k \in DOMAIN teardown.seen : ~InFlight(k) \/ inv[k].fsOps > teardown.seen[k]
    /\ IF Exists(fs, teardown.name)
       THEN /\ fs' = FsDelete(fs, teardown.name)
            /\ teardown' = [teardown EXCEPT !.status = "deleted", !.seen = NoServed]
       ELSE /\ fs' = fs
            /\ teardown' = [teardown EXCEPT !.status = "rejected", !.seen = NoServed]
    /\ UNCHANGED rendered
    /\ lastCall' = NoCall
    /\ UNCHANGED <<mounted, state, ffmpegInstance, engineLoaded, loadCalled,
                   ffmpegFileOutputName, inv, readers>>

\* --------------------------------------------- AppComponent (App.tsx)
AppInitialState ==
    [imageSource |-> Null, finalResult |-> Null, dragging |-> FALSE, processing |-> FALSE]

PathImageSource == <<"imageSource">>
PathFinalResult == <<"finalResult">>
PathAppProcessing == <<"processing">>
PathAppDragging == <<"dragging">>

InitApp ==
    /\ mounted = "AppComponent"
    /\ state = AppInitialState
    /\ ffmpegInstance = "null"
    /\ engineLoaded = FALSE
    /\ loadCalled = FALSE
    /\ ffmpegFileOutputName = NoName
    /\ fs = EmptyFS
    /\ inv = <<>>
    /\ readers = {}
    /\ rendered = NotRendered
    /\ lastCall = NoCall
    /\ teardown = NoTeardown

\* loadFFmpeg up to its first await: this.ffmpeg = new FFmpeg().
LoadFFmpeg ==
    /\ mounted = "AppComponent"
    /\ ~Unmounted
    /\ UNCHANGED <<mounted, teardown>>
    /\ ~loadCalled
    /\ loadCalled' = TRUE
    /\ ffmpegInstance' = "FFmpeg"
    /\ UNCHANGED rendered
    /\ lastCall' = NoCall
    /\ UNCHANGED <<state, engineLoaded, ffmpegFileOutputName, fs, inv, readers>>

\* await this.ffmpeg.load(...) resolves.
LoadFFmpegDone ==
    /\ mounted = "AppComponent"
    /\ UNCHANGED <<mounted, teardown>>
    /\ loadCalled
    /\ ~engineLoaded
    /\ engineLoaded' = TRUE
    /\ UNCHANGED rendered
    /\ lastCall' = NoCall
    /\ UNCHANGED <<state, ffmpegInstance, loadCalled, ffmpegFileOutputName, fs, inv, readers>>

\* The synchronous part of generateMeme (lines 96-105), run inside a handler
\* that has already queued the state updates `pre`.  The output name is
\* `${Date.now()}-FILE-IMAGE-MEME.png`: a call in the same millisecond as
\* the previous one generates the previous name again.  The scale is fixed
\* (iw/3), and there is no check of the handle before the first await: with
\* a null handle every later `ffmpeg?.` call is skipped.
CallGenerateMeme(via, pre, sourceArg, delivered) ==
    LET imageSrc == Coalesce(sourceArg, state.imageSource)
        call(outcome) == [via |-> via, fileSrc |-> imageSrc, amount |-> Num(3),
                          delivered |-> delivered, outcome |-> outcome]
    IN  IF Falsy(imageSrc)
        THEN \* if (!imageSrc) return;
             /\ state' = Commit(state, pre)
             /\ UNCHANGED rendered
             /\ lastCall' = call("InvalidInput")
             /\ UNCHANGED <<ffmpegFileOutputName, inv>>
        ELSE /\ Len(inv) < MaxInvocations
             /\ \E name \in {OutputName(Len(inv) + 1), ffmpegFileOutputName} \ {NoName} :
                    ffmpegFileOutputName' = name
             /\ state' = Commit(state, pre \o << <<PathAppProcessing, TRUE>> >>)
             /\ inv' = Append(inv, NewInvocation(IF ffmpegInstance = "null" THEN "noEngine"
                                                                              ELSE "write",
                                                 imageSrc, Num(3)))
             /\ UNCHANGED rendered
             /\ lastCall' = call("started")

\* A caller of generateMeme(source?).
GenerateMeme(sourceArg) ==
    /\ mounted = "AppComponent"
    /\ UNCHANGED <<mounted, teardown>>
    /\ CallGenerateMeme("api", <<>>, sourceArg, Null)
    /\ UNCHANGED <<ffmpegInstance, engineLoaded, loadCalled, fs, readers>>

\* AppComponent.render <input onChange>: if (file) reader.readAsDataURL(file)
AppFileInputChange(hasFile, i) ==
    /\ mounted = "AppComponent"
    /\ ~Unmounted
    /\ UNCHANGED <<mounted, teardown>>
    /\ IF hasFile THEN StartReader("picker", i) ELSE UNCHANGED readers
    /\ UNCHANGED rendered
    /\ lastCall' = NoCall
    /\ UNCHANGED <<state, ffmpegInstance, engineLoaded, loadCalled, ffmpegFileOutputName,
                   fs, inv>>

\* its reader.onload: setTypedState('imageSource', src); this.generateMeme(src)
AppFileOnload(r) ==
    /\ mounted = "AppComponent"
    /\ UNCHANGED <<mounted, teardown>>
    /\ r \in readers /\ r.via = "picker"
    /\ readers' = readers \ {r}
    /\ CallGenerateMeme("picker", << <<PathImageSource, DataURL(r.img)>> >>,
                        DataURL(r.img), DataURL(r.img))
    /\ UNCHANGED <<ffmpegInstance, engineLoaded, loadCalled, fs>>

\* AppComponent.reset
AppReset ==
    /\ mounted = "AppComponent"
    /\ ~Unmounted
    /\ UNCHANGED <<mounted, teardown>>
    /\ state' = Commit(state, << <<PathImageSource, Null>>, <<PathFinalResult, Null>> >>)
    /\ inv' = SeenByReset
    /\ UNCHANGED rendered
    /\ lastCall' = ResetCall
    /\ UNCHANGED <<ffmpegInstance, engineLoaded, loadCalled, ffmpegFileOutputName,
                   fs, readers>>

\* fetch, blob and arrayBuffer resolve and ffmpeg.writeFile('input.png', ..)
\* resolves; the first exec (input.png -> tmp1.jpg) is issued.
AppWriteFileDone(k) ==
    /\ mounted = "AppComponent"
    /\ UNCHANGED <<mounted, teardown>>
    /\ inv[k].pc = "write"
    /\ engineLoaded
    /\ fs' = FsWrite(fs, InputPng, RawBytes(inv[k].fileSrc.id, k))
    /\ inv' = [inv EXCEPT ![k].pc = "exec", ![k].quality = Num(40), ![k].fsOps = @ + 1]
    /\ UNCHANGED rendered
    /\ lastCall' = NoCall
    /\ UNCHANGED <<state, ffmpegInstance, engineLoaded, loadCalled, ffmpegFileOutputName,
                   readers>>

\* The first exec resolves; the second (tmp1.jpg -> this.currentFILEName) is
\* issued with the name the field holds now.
AppExecDone(k) ==
    /\ mounted = "AppComponent"
    /\ UNCHANGED <<mounted, teardown>>
    /\ inv[k].pc = "exec"
    /\ engineLoaded
    /\ fs' = IF Exists(fs, InputPng)
             THEN FsWrite(fs, TmpJpg, ExecOutput(fs[InputPng], inv[k].amount, inv[k].quality, k))
             ELSE fs
    /\ inv' = [inv EXCEPT ![k].pc = "exec2",
                          ![k].execOut = ffmpegFileOutputName,
                          ![k].fsOps = @ + 1]
    /\ UNCHANGED rendered
    /\ lastCall' = NoCall
    /\ UNCHANGED <<state, ffmpegInstance, engineLoaded, loadCalled, ffmpegFileOutputName,
                   readers>>

\* The second exec resolves; readFile(this.currentFILEName) is issued.
AppExec2Done(k) ==
    /\ mounted = "AppComponent"
    /\ UNCHANGED <<mounted, teardown>>
    /\ inv[k].pc = "exec2"
    /\ engineLoaded
    /\ fs' = IF Exists(fs, TmpJpg)
             THEN FsWrite(fs, inv[k].execOut,
                          ExecOutput(fs[TmpJpg], inv[k].amount, inv[k].quality, k))
             ELSE fs
    /\ inv' = [inv EXCEPT ![k].pc = "readFile",
                          ![k].readName = ffmpegFileOutputName,
                          ![k].fsOps = @ + 1]
    /\ UNCHANGED rendered
    /\ lastCall' = NoCall
    /\ UNCHANGED <<state, ffmpegInstance, engineLoaded, loadCalled, ffmpegFileOutputName,
                   readers>>

\* readFile resolves with the bytes; deleteFile('input.png') is issued.
AppReadFileDone(k) ==
    /\ mounted = "AppComponent"
    /\ UNCHANGED <<mounted, teardown>>
    /\ inv[k].pc = "readFile"
    /\ engineLoaded
    /\ Exists(fs, inv[k].readName)
    /\ inv' = [inv EXCEPT ![k].pc = "deleteFile",
                          ![k].data = fs[inv[k].readName],
                          ![k].fsOps = @ + 1]
    /\ UNCHANGED rendered
    /\ lastCall' = NoCall
    /\ UNCHANGED <<state, ffmpegInstance, engineLoaded, loadCalled, ffmpegFileOutputName,
                   fs, readers>>

\* deleteFile('input.png') resolves; deleteFile('tmp1.jpg') is issued.
AppDeleteFileDone(k) ==
    /\ mounted = "AppComponent"
    /\ UNCHANGED <<mounted, teardown>>
    /\ inv[k].pc = "deleteFile"
    /\ engineLoaded
    /\ Exists(fs, InputPng)
    /\ fs' = FsDelete(fs, InputPng)
    /\ inv' = [inv EXCEPT ![k].pc = "deleteTmp", ![k].fsOps = @ + 1]
    /\ UNCHANGED rendered
    /\ lastCall' = NoCall
    /\ UNCHANGED <<state, ffmpegInstance, engineLoaded, loadCalled, ffmpegFileOutputName,
                   readers>>

\* deleteFile('tmp1.jpg') resolves; lines 145-146 publish the result and
\* clear the flag.
AppDeleteTmpDone(k) ==
    /\ mounted = "AppComponent"
    /\ UNCHANGED <<mounted, teardown>>
    /\ inv[k].pc = "deleteTmp"
    /\ engineLoaded
    /\ Exists(fs, TmpJpg)
    /\ fs' = FsDelete(fs, TmpJpg)
    /\ state' = Commit(state, << <<PathFinalResult, BlobURL(k)>>,
                                 <<PathAppProcessing, FALSE>> >>)
    /\ inv' = [inv EXCEPT ![k] = Ended([@ EXCEPT !.fsOps = @ + 1], "done")]
    /\ UNCHANGED rendered
    /\ lastCall' = NoCall
    /\ UNCHANGED <<ffmpegInstance, engineLoaded, loadCalled, ffmpegFileOutputName,
                   readers>>

\* Started without a handle: the fetch resolves, every `ffmpeg?.` call is
\* skipped, data is undefined and lines 135-139 clear the flag and return.
AppNoEngineDone(k) ==
    /\ mounted = "AppComponent"
    /\ UNCHANGED <<mounted, teardown>>
    /\ inv[k].pc = "noEngine"
    /\ state' = Commit(state, << <<PathAppProcessing, FALSE>> >>)
    /\ inv' = [inv EXCEPT ![k] = Ended(@, "noResult")]
    /\ UNCHANGED rendered
    /\ lastCall' = NoCall
    /\ UNCHANGED <<ffmpegInstance, engineLoaded, loadCalled, ffmpegFileOutputName,
                   fs, readers>>

\* An awaited operation of generateMeme rejects; nothing catches it.
AppOperationFails(k) ==
    /\ mounted = "AppComponent"
    /\ UNCHANGED <<mounted, teardown>>
    /\ InFlight(k)
    /\ inv' = [inv EXCEPT ![k] = Ended(@, "failed")]
    /\ UNCHANGED rendered
    /\ lastCall' = NoCall
    /\ UNCHANGED <<state, ffmpegInstance, engineLoaded, loadCalled, ffmpegFileOutputName,
                   fs, readers>>

\* AppComponent.handleDrop
AppHandleDrop(hasFile, i) ==
    /\ mounted = "AppComponent"
    /\ ~Unmounted
    /\ UNCHANGED <<mounted, teardown>>
    /\ state' = Commit(state, << <<PathAppDragging, FALSE>> >>)
    /\ IF hasFile THEN StartReader("drop", i) ELSE UNCHANGED readers
    /\ UNCHANGED rendered
    /\ lastCall' = NoCall
    /\ UNCHANGED <<ffmpegInstance, engineLoaded, loadCalled, ffmpegFileOutputName,
                   fs, inv>>

\* The updates the onload of handleDrop and of handlePaste queue before
\* calling generateMeme(src).
AppOnloadUpdates(src) ==
    << <<PathImageSource, EmptyStr>>, <<PathFinalResult, EmptyStr>>,
       <<PathAppProcessing, FALSE>>, <<PathImageSource, src>> >>

\* reader.onload of AppComponent.handleDrop
AppDropOnload(r) ==
    /\ mounted = "AppComponent"
    /\ UNCHANGED <<mounted, teardown>>
    /\ r \in readers /\ r.via = "drop"
    /\ readers' = readers \ {r}
    /\ CallGenerateMeme("drop", AppOnloadUpdates(DataURL(r.img)),
                        DataURL(r.img), DataURL(r.img))
    /\ UNCHANGED <<ffmpegInstance, engineLoaded, loadCalled, fs>>

\* AppComponent.handlePaste, the window 'paste' listener
AppHandlePaste(hasItems, items) ==
    /\ mounted = "AppComponent"
    /\ ~Unmounted
    /\ UNCHANGED <<mounted, teardown>>
    /\ IF PastedFile(hasItems, items) # 0
       THEN StartReader("paste", PastedFile(hasItems, items))
       ELSE UNCHANGED readers
    /\ UNCHANGED rendered
    /\ lastCall' = NoCall
    /\ UNCHANGED <<state, ffmpegInstance, engineLoaded, loadCalled, ffmpegFileOutputName,
                   fs, inv>>

\* reader.onload of AppComponent.handlePaste
AppPasteOnload(r) ==
    /\ mounted = "AppComponent"
    /\ UNCHANGED <<mounted, teardown>>
    /\ r \in readers /\ r.via = "paste"
    /\ readers' = readers \ {r}
    /\ CallGenerateMeme("paste", AppOnloadUpdates(DataURL(r.img)),
                        DataURL(r.img), DataURL(r.img))
    /\ UNCHANGED <<ffmpegInstance, engineLoaded, loadCalled, fs>>

\* onDragEnter / onDragExit of AppComponent.render
AppSetDragging(b) ==
    /\ mounted = "AppComponent"
    /\ ~Unmounted
    /\ UNCHANGED <<mounted, teardown>>
    /\ state' = Commit(state, << <<PathAppDragging, b>> >>)
    /\ UNCHANGED rendered
    /\ lastCall' = NoCall
    /\ UNCHANGED <<ffmpegInstance, engineLoaded, loadCalled, ffmpegFileOutputName,
                   fs, inv, readers>>

\* AppComponent.componentWillUnmount:
\*   this.ffmpeg?.deleteFile(this.currentFILEName); this.ffmpeg = null;
AppComponentWillUnmount ==
    /\ mounted = "AppComponent"
    /\ Unmount

\* ---------------------------------------------------------- inputs
PasteInputs == {<<>>} \cup {<<a>> : a \in ClipboardItems}
                      \cup {<<a, b>> : a \in ClipboardItems, b \in ClipboardItems}
ApiAmounts == {Undefined, Num(0)}
ApiSources == {Undefined, Null, EmptyStr} \cup {DataURL(i) : i \in Images}
PipelineAmounts == {NaN} \cup {Num(n) : n \in -2..MaxAmount}

\* ------------------------------------------------- specifications
\* The application as MainLayout wires it: the engine, the three input
\* paths, reset, and the awaited steps of overlapping invocations.
Next ==
    \/ LoadFFmpegInstance
    \/ LoadDone
    \/ \E k \in 1..Len(inv) : WriteFileDone(k)
    \/ \E k \in 1..Len(inv) : ExecDone(k)
    \/ \E k \in 1..Len(inv) : ReadFileDone(k)
    \/ \E k \in 1..Len(inv) : DeleteFileDone(k)
    \/ \E k \in 1..Len(inv) : OperationFails(k)
    \/ \E b \in BOOLEAN, i \in Images : FileInputChange(b, i)
    \/ \E r \in readers : OnFileChange(r)
    \/ \E b \in BOOLEAN, i \in Images : HandleDrop(b, i)
    \/ \E r \in readers : DropOnload(r)
    \/ \E b \in BOOLEAN, items \in PasteInputs : OnPasteImage(b, items)
    \/ \E r \in readers : PasteOnload(r)
    \/ Reset
    \/ \E b \in BOOLEAN : SetDragging(b)
    \/ ComponentWillUnmount
    \/ TeardownDeleteServed

Spec == Init /\ [][Next]_vars

\* The application as AppComponent wires it.
NextApp ==
    \/ LoadFFmpeg
    \/ LoadFFmpegDone
    \/ \E k \in 1..Len(inv) : AppWriteFileDone(k)
    \/ \E k \in 1..Len(inv) : AppExecDone(k)
    \/ \E k \in 1..Len(inv) : AppExec2Done(k)
    \/ \E k \in 1..Len(inv) : AppReadFileDone(k)
    \/ \E k \in 1..Len(inv) : AppDeleteFileDone(k)
    \/ \E k \in 1..Len(inv) : AppDeleteTmpDone(k)
    \/ \E k \in 1..Len(inv) : AppNoEngineDone(k)
    \/ \E k \in 1..Len(inv) : AppOperationFails(k)
    \/ \E b \in BOOLEAN, i \in Images : AppFileInputChange(b, i)
    \/ \E r \in readers : AppFileOnload(r)
    \/ \E b \in BOOLEAN, i \in Images : AppHandleDrop(b, i)
    \/ \E r \in readers : AppDropOnload(r)
    \/ \E b \in BOOLEAN, items \in PasteInputs : AppHandlePaste(b, items)
    \/ \E r \in readers : AppPasteOnload(r)
    \/ AppReset
    \/ \E b \in BOOLEAN : AppSetDragging(b)
    \/ AppComponentWillUnmount
    \/ TeardownDeleteServed

SpecApp == InitApp /\ [][NextApp]_vars

\* The degrade entry points under arbitrary callers, for either component:
\* processImageWithFFmpeg(amount?, source?) and generateMeme(source?) called
\* with explicit arguments (the file picker supplies the uploaded source
\* they fall back to), while the engine's operations stay pending.
InitApi == Init \/ InitApp

NextApi ==
    \/ LoadFFmpegInstance
    \/ LoadDone
    \/ \E a \in ApiAmounts, s \in ApiSources : ProcessImageWithFFmpeg(a, s)
    \/ \E b \in BOOLEAN, i \in Images : FileInputChange(b, i)
    \/ \E r \in readers : OnFileChange(r)
    \/ Reset
    \/ LoadFFmpeg
    \/ LoadFFmpegDone
    \/ \E s \in ApiSources : GenerateMeme(s)
    \/ \E b \in BOOLEAN, i \in Images : AppFileInputChange(b, i)
    \/ \E r \in readers : AppFileOnload(r)
    \/ AppReset

SpecApi == InitApi /\ [][NextApi]_vars

\* The pipeline of one invocation, for every amount: the state right after
\* processImageWithFFmpeg(amount, source) was called on a loaded engine, and
\* then its awaited steps.
InitPipeline ==
    \E a \in PipelineAmounts, i \in Images :
        /\ mounted = "MainLayout"
        /\ state = ApplyUpdates(InitialState, << <<PathProcessing, TRUE>> >>)
        /\ ffmpegInstance = "FFmpeg"
        /\ engineLoaded = TRUE
        /\ loadCalled = TRUE
        /\ ffmpegFileOutputName = OutputName(1)
        /\ fs = EmptyFS
        /\ inv = << NewInvocation("write", DataURL(i), a) >>
        /\ readers = {}
        /\ teardown = NoTeardown
        /\ rendered = NotRendered
        /\ lastCall = [via |-> "api", fileSrc |-> DataURL(i), amount |-> a,
                       delivered |-> Null, outcome |-> "started"]

NextPipeline ==
    \/ \E k \in 1..Len(inv) : WriteFileDone(k)
    \/ \E k \in 1..Len(inv) : ExecDone(k)
    \/ \E k \in 1..Len(inv) : ReadFileDone(k)
    \/ \E k \in 1..Len(inv) : DeleteFileDone(k)
    \/ \E k \in 1..Len(inv) : OperationFails(k)

SpecPipeline == InitPipeline /\ [][NextPipeline]_vars

\* Runs of the pipeline on a loaded engine, for either component: calls of
\* the degrade entry point on an image, the awaited steps of the (possibly
\* overlapping) invocations, failures of awaited operations, and reset.
InitRuns ==
    /\ mounted \in {"MainLayout", "AppComponent"}
    /\ state = IF mounted = "MainLayout" THEN InitialState ELSE AppInitialState
    /\ ffmpegInstance = "FFmpeg"      \* componentDidMount has called the loader
    /\ engineLoaded = FALSE
    /\ loadCalled = TRUE
    /\ ffmpegFileOutputName = NoName
    /\ fs = EmptyFS
    /\ inv = <<>>
    /\ readers = {}
    /\ rendered = NotRendered
    /\ lastCall = NoCall
    /\ teardown = NoTeardown

\* The image the next call is given: successive calls get the images in turn.
NextImage == (Len(inv) % MaxImages) + 1

NextRuns ==
    \/ LoadDone
    \/ ProcessImageWithFFmpeg(Undefined, DataURL(NextImage))
    \/ \E k \in 1..Len(inv) : WriteFileDone(k)
    \/ \E k \in 1..Len(inv) : ExecDone(k)
    \/ \E k \in 1..Len(inv) : ReadFileDone(k)
    \/ \E k \in 1..Len(inv) : DeleteFileDone(k)
    \/ \E k \in 1..Len(inv) : OperationFails(k)
    \/ Reset
    \/ LoadFFmpegDone
    \/ GenerateMeme(DataURL(NextImage))
    \/ \E k \in 1..Len(inv) : AppWriteFileDone(k)
    \/ \E k \in 1..Len(inv) : AppExecDone(k)
    \/ \E k \in 1..Len(inv) : AppExec2Done(k)
    \/ \E k \in 1..Len(inv) : AppReadFileDone(k)
    \/ \E k \in 1..Len(inv) : AppDeleteFileDone(k)
    \/ \E k \in 1..Len(inv) : AppDeleteTmpDone(k)
    \/ \E k \in 1..Len(inv) : AppOperationFails(k)
    \/ AppReset

SpecRuns == InitRuns /\ [][NextRuns]_vars

\* ================================================================ claims
Ready == ffmpegInstance = "FFmpeg" /\ engineLoaded
Flag == IF mounted = "MainLayout" THEN state.ffmpeg.isProcessing ELSE state.processing
UploadedSource ==
    IF mounted = "MainLayout" THEN state.userInput.uploadedImageSource ELSE state.imageSource
ResultHandle ==
    IF mounted = "MainLayout" THEN state.ffmpeg.commandFileResult ELSE state.finalResult
IsCall(c) == c.outcome # "none"
EmptyImage(v) == v.kind = "null" \/ v.kind = "undefined" \/ (v.kind = "str" /\ v.id = 0)

\* C1: a call of processImageWithFFmpeg with a non-empty image made while
\* the engine is not ready (handle null, or constructed but not loaded) ends
\* as EngineNotReady with no engine operation done, and the processing flag
\* is false when it has returned.
C1_NotReadyLeavesFlagFalse ==
    (IsCall(lastCall) /\ ~EmptyImage(lastCall.fileSrc) /\ ~Ready)
        => /\ lastCall.outcome = "EngineNotReady"
           /\ inv[Len(inv)].fsOps = 0
           /\ Flag = FALSE

\* C2: whenever the processing flag is true, some invocation is in flight.
C2_FlagImpliesInFlight ==
    Flag => \E k \in DOMAIN inv : InFlight(k)

\* C3: whenever an invocation is in flight, the processing flag is true.
C3_InFlightImpliesFlag ==
    (\E k \in DOMAIN inv : InFlight(k)) => Flag

\* C4: the bytes behind the result an invocation publishes were produced
\* from that invocation's own input image.
C4_ResultFromOwnImage ==
    \A k \in DOMAIN inv :
        inv[k].pc = "done" =>
            /\ inv[k].data.type = "degraded"
            /\ inv[k].data.img = inv[k].fileSrc.id

\* C5: the output name an invocation gives to exec and the name it reads
\* back are the name it generated at its start.
C5_OwnOutputName ==
    \A k \in DOMAIN inv :
        /\ inv[k].execOut # NoName => inv[k].execOut = OutputName(k)
        /\ inv[k].readName # NoName => inv[k].readName = OutputName(k)

Clamp(x, lo, hi) == IF x < lo THEN lo ELSE IF x > hi THEN hi ELSE x
ExecIssued(k) == inv[k].pc \in {"exec", "readFile", "deleteFile"}

InputPaths == {"picker", "drop", "paste"}

\* C7: when the FileReader of an input path has delivered an image, the
\* handler calls processImageWithFFmpeg on exactly that image with an
\* integer amount, and the call is not turned away as having no image.
C7_EveryPathInvokes ==
    lastCall.via \in InputPaths
        => /\ lastCall.outcome # "InvalidInput"
           /\ lastCall.fileSrc = lastCall.delivered
           /\ lastCall.amount.kind = "num"

\* C8: a call whose image is null or empty is turned away: it starts no
\* invocation, does nothing to the engine's filesystem and leaves the output
\* name, the processing flag, the result and (by itself) the uploaded source
\* unchanged.
C8_EmptyImageRejected ==
    [][ (IsCall(lastCall') /\ EmptyImage(lastCall'.fileSrc))
            => /\ lastCall'.outcome = "InvalidInput"
               /\ inv' = inv
               /\ fs' = fs
               /\ ffmpegFileOutputName' = ffmpegFileOutputName
               /\ Flag' = Flag
               /\ ResultHandle' = ResultHandle
               /\ UploadedSource' = IF lastCall'.via = "api" THEN UploadedSource
                                                             ELSE lastCall'.delivered ]_vars

\* An empty call was made while an earlier invocation was pending, the flag
\* set and an output name generated.
C8_Witness ==
    /\ lastCall.outcome = "InvalidInput"
    /\ EmptyImage(lastCall.fileSrc)
    /\ Len(inv) > 0
    /\ Flag
    /\ ffmpegFileOutputName # NoName

\* C9: a call with a non-empty image and an amount < 1 is turned away before
\* any mutation: no invocation starts, the flag is not set and no output
\* name is generated.
C9_BadAmountRejected ==
    [][ (IsCall(lastCall') /\ ~EmptyImage(lastCall'.fileSrc)
            /\ lastCall'.amount.kind = "num" /\ lastCall'.amount.id < 1)
            => /\ lastCall'.outcome = "InvalidInput"
               /\ inv' = inv
               /\ fs' = fs
               /\ ffmpegFileOutputName' = ffmpegFileOutputName
               /\ Flag' = Flag ]_vars

\* C10: an invocation that failed after it wrote its input file leaves no
\* file it wrote in the engine's filesystem.
C10_FailedRunCleansUp ==
    \A k \in DOMAIN inv :
        (inv[k].pc = "failed" /\ inv[k].fsOps >= 1)
            => \A n \in DOMAIN fs : fs[n].by # k

C12_TeardownLeavesNoFiles ==
    (teardown.status \in {"deleted", "rejected"} /\ teardown.allDone)
        => \A n \in DOMAIN fs : fs[n].by \notin DOMAIN inv

\* The upload surface of UploadLayout.render / AppComponent.render is shown.
UploadSurfaceShown == Falsy(UploadedSource)
PcOf(k) == inv[k].pc

\* C13: reset() leaves the ResultHandle and the uploaded source null and
\* touches nothing a degrade call depends on (the engine handle, the engine,
\* its filesystem, the progress of running invocations), whether or not an
\* invocation is in flight or has failed; and a degrade call on a non-empty
\* image with a constructed handle is never turned away, whatever the flag,
\* the result and the earlier invocations are.
C13_ResetAllowsNewDegrade ==
    [][ /\ lastCall'.via = "reset"
            => /\ ResultHandle' = Null
               /\ UploadedSource' = Null
               /\ UploadSurfaceShown'
               /\ <<ffmpegInstance, engineLoaded, fs, ffmpegFileOutputName>>'
                    = <<ffmpegInstance, engineLoaded, fs, ffmpegFileOutputName>>
               /\ DOMAIN inv' = DOMAIN inv
               /\ \A k \in DOMAIN inv : PcOf(k)' = PcOf(k)
        /\ (IsCall(lastCall') /\ ~EmptyImage(lastCall'.fileSrc) /\ ffmpegInstance # "null")
            => /\ lastCall'.outcome = "started"
               /\ Len(inv') = Len(inv) + 1
               /\ inv'[Len(inv')].pc \in InFlightPcs ]_vars

\* reset() ran while an invocation was in flight, and an invocation started
\* after it has published its own result.
C13_Witness ==
    \E j, k \in DOMAIN inv :
        /\ inv[j].reset = "during"
        /\ inv[k].reset = "none"
        /\ inv[k].pc = "done"
        /\ ResultHandle = BlobURL(k)
        /\ inv[k].data.img = inv[k].fileSrc.id

\* The successive positions of one processImageWithFFmpeg invocation.
PipelineOrder ==
    { <<"write", "exec">>, <<"exec", "readFile">>, <<"readFile", "deleteFile">>,
      <<"deleteFile", "done">> }

\* C14: within one processImageWithFFmpeg invocation the operations happen
\* in the order write input.png, one exec, read the output, delete
\* input.png, publish the result, clear the flag: the invocation only moves
\* along that order (or ends with an exception), and at each position
\* exactly the earlier operations have taken effect.
C14_PipelineOrder ==
    [][ \A k \in DOMAIN inv :
          /\ PcOf(k)' # PcOf(k)
                => \/ <<PcOf(k), PcOf(k)'>> \in PipelineOrder
                   \/ PcOf(k)' = "failed"
          /\ PcOf(k)' = "write"
                => /\ inv'[k].fsOps = 0
                   /\ fs' = EmptyFS
          /\ PcOf(k)' = "exec"
                => /\ inv'[k].fsOps = 1
                   /\ Exists(fs', InputPng)
                   /\ ~Exists(fs', inv'[k].execOut)
                   /\ inv'[k].data = NoData
          /\ PcOf(k)' = "readFile"
                => /\ inv'[k].fsOps = 2
                   /\ Exists(fs', InputPng)
                   /\ inv'[k].data = NoData
          /\ PcOf(k)' = "deleteFile"
                => /\ inv'[k].fsOps = 3
                   /\ Exists(fs', InputPng)
                   /\ inv'[k].data # NoData
          /\ PcOf(k)' \in {"write", "exec", "readFile", "deleteFile"}
                => /\ ResultHandle' = Null
                   /\ Flag' = TRUE
          /\ PcOf(k)' = "done"
                => /\ inv'[k].fsOps = 4
                   /\ ~Exists(fs', InputPng)
                   /\ Exists(fs', inv[k].readName)
                   /\ ResultHandle' = BlobURL(k)
                   /\ Flag' = FALSE ]_vars

\* An invocation went through the whole order and published.
C14_Witness ==
    \E k \in DOMAIN inv :
        /\ inv[k].pc = "done"
        /\ inv[k].fsOps = 4
        /\ ~Exists(fs, InputPng)
        /\ ResultHandle = BlobURL(k)
        /\ Flag = FALSE

\* C15: teardown (componentWillUnmount) in any reachable state raises no
\* error: the deleteFile it issues is never rejected, whether the engine was
\* constructed but not loaded, loaded with no invocation yet (output name
\* ''), or used by invocations; it leaves the handle null and, once served,
\* no file under the last output name; with no handle it does nothing.
C15_TeardownRaisesNoError ==
    /\ teardown.status # "rejected"
    /\ Unmounted => ffmpegInstance = "null"
    /\ teardown.status = "deleted" => ~Exists(fs, teardown.name)
    /\ teardown.status = "noop" => teardown.name = NoName
\* ------------------------------------------------- picture dimensions
\* One run of the pipeline on a loaded engine for a picture of every size
\* and, in processImageWithFFmpeg, every amount 1..MaxAmount (generateMeme
\* has the amount 3 built in).
InitScale ==
    \E i \in Pictures, a \in 1..MaxAmount, c \in {"MainLayout", "AppComponent"} :
        /\ mounted = c
        /\ state = IF c = "MainLayout"
                   THEN ApplyUpdates(InitialState, << <<PathProcessing, TRUE>> >>)
                   ELSE ApplyUpdates(AppInitialState, << <<PathAppProcessing, TRUE>> >>)
        /\ ffmpegInstance = "FFmpeg"
        /\ engineLoaded = TRUE
        /\ loadCalled = TRUE
        /\ ffmpegFileOutputName = OutputName(1)
        /\ fs = EmptyFS
        /\ inv = << NewInvocation("write", DataURL(i),
                                  IF c = "MainLayout" THEN Num(a) ELSE Num(3)) >>
        /\ readers = {}
        /\ teardown = NoTeardown
        /\ rendered = NotRendered
        /\ lastCall = [via |-> "api", fileSrc |-> DataURL(i),
                       amount |-> IF c = "MainLayout" THEN Num(a) ELSE Undefined,
                       delivered |-> Null, outcome |-> "started"]

NextScale ==
    \/ \E k \in 1..Len(inv) : WriteFileDone(k)
    \/ \E k \in 1..Len(inv) : ExecDone(k)
    \/ \E k \in 1..Len(inv) : ReadFileDone(k)
    \/ \E k \in 1..Len(inv) : DeleteFileDone(k)
    \/ \E k \in 1..Len(inv) : AppWriteFileDone(k)
    \/ \E k \in 1..Len(inv) : AppExecDone(k)
    \/ \E k \in 1..Len(inv) : AppExec2Done(k)
    \/ \E k \in 1..Len(inv) : AppReadFileDone(k)
    \/ \E k \in 1..Len(inv) : AppDeleteFileDone(k)
    \/ \E k \in 1..Len(inv) : AppDeleteTmpDone(k)

SpecScale == InitScale /\ [][NextScale]_vars

\* C16: for every integer amount >= 1 and every width and height, scaling
\* by 1/amount and then by 1/scaleFactor yields a picture of the original
\* dimensions, also when they are not multiples of amount: the picture a
\* completed invocation read back is as wide and as high as its source.
C16_RoundTripKeepsDimensions ==
    \A k \in DOMAIN inv :
        inv[k].pc = "done"
            => /\ inv[k].data.w = Width(inv[k].fileSrc.id)
               /\ inv[k].data.h = Height(inv[k].fileSrc.id)
\* ------------------------------------------------------- class names
\* A non-empty string of class names separated by single spaces, an array
\* and a function returning a value, as arguments of merge.
Str(names) == [kind |-> "classes", names |-> names]
Arr(items) == [kind |-> "array", items |-> items]
Fn(v) == [kind |-> "function", result |-> v]

ClassNames == {"animate-spin", "px-8", "text-white"}

\* Values of the declared argument type of merge.
MergeItems ==
    {Null, Undefined, EmptyStr, Num(0), Num(8)}
        \cup {Str(<<c>>) : c \in ClassNames}
        \cup {Str(<<"px-8", "text-white">>)}
        \cup {Arr(<< Fn(Str(<<"px-8">>)), Fn(EmptyStr) >>)}

RECURSIVE ArgLists(_)
ArgLists(n) ==
    IF n = 0 THEN {<<>>}
    ELSE ArgLists(n - 1) \cup {Append(a, i) : a \in ArgLists(n - 1), i \in MergeItems}

\* if (!item) return;
SkippedByMerge(item) == Falsy(item) \/ item = Num(0) \/ item = NaN

\* String(item), as the class names it is made of.
ItemString(item) == IF item.kind = "num" THEN << ToString(item.id) >> ELSE item.names

\* flatten(item): the strings it pushes on `classes`.
RECURSIVE Flatten(_)
FlattenAll(items) ==
    LET RECURSIVE Go(_)
        Go(i) == IF i > Len(items) THEN <<>> ELSE Flatten(items[i]) \o Go(i + 1)
    IN  Go(1)
Flatten(item) ==
    IF SkippedByMerge(item) THEN <<>>
    ELSE IF item.kind \in {"classes", "num"} THEN << ItemString(item) >>
    ELSE IF item.kind = "array" THEN FlattenAll(item.items)
    ELSE IF item.kind = "function" THEN Flatten(item.result)
    ELSE <<>>

\* classes.join(" "), as the class names of the resulting string.
RECURSIVE Join(_)
Join(classes) == IF classes = <<>> THEN <<>> ELSE Head(classes) \o Join(Tail(classes))

\* merge(...args)
merge(args) == Join(FlattenAll(args))

\* Button.render: merge(<the default classes>, className ?? '')
ButtonArgs(className) ==
    << Str(<<"inline-flex", "items-center", "justify-center", "gap-3">>),
       Str(<<"bg-neutral-800", "text-white", "text-3xl", "rounded-3xl">>),
       Str(<<"border-2", "border-transparent">>),
       Str(<<"px-8", "py-5">>),
       Str(<<"hover:rounded-[100px]", "hover:bg-fuchsia-600", "hover:border-transparent",
             "hover:text-black">>),
       Str(<<"transition-all", "duration-300", "active:scale-95">>),
       Coalesce(className, EmptyStr) >>

\* LoadingSpinner.render: merge('animate-spin', className ?? '')
SpinnerArgs(className) == << Str(<<"animate-spin">>), Coalesce(className, EmptyStr) >>

\* The className prop a caller passes.
ClassProps == {Undefined, EmptyStr} \cup {Str(<<c>>) : c \in ClassNames}

\* The class attribute a render composes from args.
Composed(by, args) == [by |-> by, args |-> args, className |-> merge(args)]

RenderButton(className) ==
    /\ rendered' = Composed("Button", ButtonArgs(className))
    /\ UNCHANGED <<mounted, state, ffmpegInstance, engineLoaded, loadCalled,
                   ffmpegFileOutputName, fs, inv, readers, lastCall, teardown>>

RenderLoadingSpinner(className) ==
    /\ rendered' = Composed("LoadingSpinner", SpinnerArgs(className))
    /\ UNCHANGED <<mounted, state, ffmpegInstance, engineLoaded, loadCalled,
                   ffmpegFileOutputName, fs, inv, readers, lastCall, teardown>>

CallMerge(args) ==
    /\ rendered' = Composed("merge", args)
    /\ UNCHANGED <<mounted, state, ffmpegInstance, engineLoaded, loadCalled,
                   ffmpegFileOutputName, fs, inv, readers, lastCall, teardown>>

NextMerge ==
    \/ \E c \in ClassProps : RenderButton(c)
    \/ \E c \in ClassProps : RenderLoadingSpinner(c)
    \/ \E args \in ArgLists(MaxArgs) : CallMerge(args)

SpecMerge == Init /\ [][NextMerge]_vars

\* s without the elements that occur again later in it.
RECURSIVE KeepLast(_)
KeepLast(s) ==
    IF s = <<>> THEN <<>>
    ELSE IF \E j \in 2..Len(s) : s[j] = s[1] THEN KeepLast(Tail(s))
    ELSE <<s[1]>> \o KeepLast(Tail(s))

\* C17: merge(...args) returns the class names of its arguments joined by
\* spaces with duplicates removed, the last occurrence of a name being the
\* one that is kept; falsy arguments contribute nothing.
C17_MergeDeduplicates ==
    rendered.by # "none"
        => /\ rendered.className = KeepLast(rendered.className)
           /\ rendered.className
                = KeepLast(merge(SelectSeq(rendered.args, LAMBDA a : ~SkippedByMerge(a))))
\* ------------------------------------------------- the state reducer
\* The reducer of updateStateAtPath / setTypedState on objects with identity.
\* An object is a function from field names to cells; a cell holds a
\* reference to an object or a plain value.  Objects are named by where
\* they come from: <<"prev", ..>> the previous state, <<"clone", ..>> its
\* structuredClone, <<"copy", f>> the spread copy {...current[f]}.
NoRef == <<>>
Val(v) == [ref |-> NoRef, val |-> v]
Ref(o) == [ref |-> o, val |-> Null]

\* The fields of the state that hold objects.
ObjectFields(st) == IF "userInput" \in DOMAIN st THEN {"userInput", "ffmpeg"} ELSE {}

\* prevState, as objects.
PrevHeap(st) ==
    [o \in {<<"prev">>} \cup {<<"prev", f>> : f \in ObjectFields(st)} |->
        IF Len(o) = 1
        THEN [f \in DOMAIN st |->
                IF f \in ObjectFields(st) THEN Ref(<<"prev", f>>) ELSE Val(st[f])]
        ELSE [g \in DOMAIN st[o[2]] |-> Val(st[o[2]][g])]]

\* h with the objects of add added or replaced.
HeapPut(h, add) ==
    [o \in DOMAIN h \cup DOMAIN add |-> IF o \in DOMAIN add THEN add[o] ELSE h[o]]

\* const newState = structuredClone(prevState)
StructuredClone(h) ==
    HeapPut(h,
        [o \in {<<"clone">>} \cup {<<"clone", f>> : f \in {g \in DOMAIN h[<<"prev">>] :
                                                         h[<<"prev">>][g].ref # NoRef}} |->
            IF Len(o) = 1
            THEN [f \in DOMAIN h[<<"prev">>] |->
                    IF h[<<"prev">>][f].ref # NoRef THEN Ref(<<"clone", f>>)
                    ELSE h[<<"prev">>][f]]
            ELSE h[<<"prev", o[2]>>]])

\* current[keys[i]] = { ...current[keys[i]] }; current = current[keys[i]];
SpreadCopy(h, current, f) ==
    HeapPut(h, (<<"copy", f>> :> h[h[current][f].ref])
                 @@ (current :> [h[current] EXCEPT ![f] = Ref(<<"copy", f>>)]))

\* current[keys[keys.length - 1]] = value
AssignLeaf(h, current, f, value) ==
    HeapPut(h, current :> [h[current] EXCEPT ![f] = Val(value)])

\* A reducer that skips structuredClone and works on prevState itself.
updateInPlace(h, keys, value) ==
    IF Len(keys) = 1
    THEN [heap |-> AssignLeaf(h, <<"prev">>, keys[1], value), root |-> <<"prev">>]
    ELSE [heap |-> AssignLeaf(h, <<"prev", keys[1]>>, keys[2], value), root |-> <<"prev">>]

\* The function passed to setState, on the heap h that holds prevState:
\* the heap it leaves and the object it returns.
updateStateAtPath(h, keys, value) ==
    LET cloned == StructuredClone(h)
    IN  IF Len(keys) = 1
        THEN [heap |-> AssignLeaf(cloned, <<"clone">>, keys[1], value), root |-> <<"clone">>]
        ELSE [heap |-> AssignLeaf(SpreadCopy(cloned, <<"clone">>, keys[1]),
                                  <<"copy", keys[1]>>, keys[2], value),
              root |-> <<"clone">>]

\* The state value an object of the heap stands for.
HeapValue(h, root) ==
    [f \in DOMAIN h[root] |->
        IF h[root][f].ref # NoRef
        THEN [g \in DOMAIN h[h[root][f].ref] |-> h[h[root][f].ref][g].val]
        ELSE h[root][f].val]

\* The typed paths of the state and the values each takes.
StatePaths ==
    IF mounted = "MainLayout"
    THEN {PathSource, PathDragging, PathProcessing, PathResult}
    ELSE {PathImageSource, PathFinalResult, PathAppProcessing, PathAppDragging}

PathValues(path) ==
    IF path \in {PathSource, PathImageSource}
    THEN {Null, EmptyStr} \cup {DataURL(i) : i \in Images}
    ELSE IF path \in {PathResult, PathFinalResult}
    THEN {Null, EmptyStr} \cup {BlobURL(k) : k \in 1..MaxInvocations}
    ELSE BOOLEAN

Updates == UNION {{<<p, v>> : v \in PathValues(p)} : p \in StatePaths}

\* state[path]
GetAtPath(st, path) ==
    IF Len(path) = 1 THEN st[path[1]] ELSE st[path[1]][path[2]]

\* One handler calls updateStateAtPath / setTypedState once, or twice in a
\* row; the file-load handler of AppComponent queues its four updates.
UpdateStateAtPath(u) ==
    /\ mounted = "MainLayout"
    /\ state' = Commit(state, <<u>>)
    /\ UNCHANGED <<mounted, ffmpegInstance, engineLoaded, loadCalled, ffmpegFileOutputName,
                   fs, inv, readers, lastCall, teardown, rendered>>

SetTypedState(u) ==
    /\ mounted = "AppComponent"
    /\ state' = Commit(state, <<u>>)
    /\ UNCHANGED <<mounted, ffmpegInstance, engineLoaded, loadCalled, ffmpegFileOutputName,
                   fs, inv, readers, lastCall, teardown, rendered>>

SetStateTwice(u1, u2) ==
    /\ state' = Commit(state, <<u1, u2>>)
    /\ UNCHANGED <<mounted, ffmpegInstance, engineLoaded, loadCalled, ffmpegFileOutputName,
                   fs, inv, readers, lastCall, teardown, rendered>>

OnloadUpdates(src) ==
    /\ mounted = "AppComponent"
    /\ state' = Commit(state, AppOnloadUpdates(src))
    /\ UNCHANGED <<mounted, ffmpegInstance, engineLoaded, loadCalled, ffmpegFileOutputName,
                   fs, inv, readers, lastCall, teardown, rendered>>

NextState ==
    \/ \E u \in Updates : UpdateStateAtPath(u)
    \/ \E u \in Updates : SetTypedState(u)
    \/ \E u1, u2 \in Updates : SetStateTwice(u1, u2)
    \/ \E i \in Images : OnloadUpdates(DataURL(i))

SpecState == InitApi /\ [][NextState]_vars

\* C18: updateStateAtPath / setTypedState sets exactly the addressed field
\* to the given value and leaves every other field as it was; the reducer
\* returns a new object and changes no object of the previous state; and
\* calls made in a row take effect in call order (imageSource '' then src
\* ends with src).
C18_UpdateSetsExactlyOneField ==
    /\ \A u \in Updates :
        LET new == SetAtPath(state, u[1], u[2])
            run == updateStateAtPath(PrevHeap(state), u[1], u[2])
        IN  /\ GetAtPath(new, u[1]) = u[2]
            /\ \A p \in StatePaths \ {u[1]} : GetAtPath(new, p) = GetAtPath(state, p)
            /\ DOMAIN new = DOMAIN state
            /\ HeapValue(run.heap, run.root) = new
            /\ \A o \in DOMAIN PrevHeap(state) : run.heap[o] = PrevHeap(state)[o]
            /\ run.root \notin DOMAIN PrevHeap(state)
    /\ \A u1, u2 \in Updates :
        LET new == ApplyUpdates(state, <<u1, u2>>)
        IN  /\ GetAtPath(new, u2[1]) = u2[2]
            /\ u1[1] # u2[1] => GetAtPath(new, u1[1]) = u1[2]
            /\ \A p \in StatePaths \ {u1[1], u2[1]} : GetAtPath(new, p) = GetAtPath(state, p)
    /\ mounted = "AppComponent"
        => \A i \in Images :
             GetAtPath(ApplyUpdates(state, AppOnloadUpdates(DataURL(i))), PathImageSource)
                = DataURL(i)

\* The file-load handler's updates have been applied to a state that had a
\* result: the source ends as the picture, the result as ''.
C18_Witness ==
    /\ mounted = "AppComponent"
    /\ inv = <<>>
    /\ state.imageSource = DataURL(1)
    /\ state.finalResult = EmptyStr
    /\ state.processing = FALSE
    /\ state.dragging = TRUE

\* C19: once reset() has been called the ResultHandle stays null until an
\* invocation started after that reset completes: no invocation that was in
\* flight when reset ran publishes afterwards, and the state with no
\* uploaded image but a displayed result is unreachable.
C19_NoPublishAfterReset ==
    /\ \A k \in DOMAIN inv :
          (inv[k].pc = "done" /\ ResultHandle = BlobURL(k)) => inv[k].reset # "during"
    /\ ~(UploadedSource = Null /\ ResultHandle.kind = "blob")

\* C20: when several invocations overlap, once all of them have completed
\* the published ResultHandle is that of the most recently started one,
\* made from the picture held as the uploaded source; an older invocation
\* that finishes later never overwrites the result of a newer one.
C20_LatestInvocationWins ==
    (/\ Len(inv) >= 2
     /\ \A k \in DOMAIN inv : inv[k].pc = "done" /\ inv[k].reset = "none")
        => /\ ResultHandle = BlobURL(Len(inv))
           /\ UploadedSource = inv[Len(inv)].fileSrc
           /\ inv[Len(inv)].data.img = UploadedSource.id

\* ------------------------------------------------------ what is shown
\* UploadLayout.render / AppComponent.render: the branch after the upload
\* prompt, taken when an image is held and the flag is set.
BusyShown == ~Falsy(UploadedSource) /\ Flag

\* MainLayout.render mounts PreviewLayout for any truthy commandFileResult
\* (PreviewLayout.render returns null for a falsy resultUrl);
\* AppComponent.render reaches its result branch only with an image held
\* and the flag clear.
PreviewShown ==
    IF mounted = "MainLayout"
    THEN ~Falsy(ResultHandle)
    ELSE ~Falsy(UploadedSource) /\ ~Flag /\ ~Falsy(ResultHandle)

\* C21: in every reachable state of (uploaded source, processing flag,
\* result) exactly one of the upload prompt, the 'Generating your meme...'
\* indicator and the result preview is displayed: never none of them and
\* never two at once.
C21_ExactlyOneSurface ==
    Cardinality({s \in {"prompt", "busy", "preview"} :
                    \/ s = "prompt" /\ UploadSurfaceShown
                    \/ s = "busy" /\ BusyShown
                    \/ s = "preview" /\ PreviewShown}) = 1
\* ------------------------------------------------------------- paste
\* Paste events on a mounted component whose engine is loading or loaded,
\* and the onload of their readers, for either component; the awaited steps
\* of the invocations they start in MainLayout (those of AppComponent stay
\* pending here).
NextPaste ==
    \/ LoadDone
    \/ \E b \in BOOLEAN, items \in PasteInputs : OnPasteImage(b, items)
    \/ \E r \in readers : PasteOnload(r)
    \/ \E k \in 1..Len(inv) : WriteFileDone(k)
    \/ \E k \in 1..Len(inv) : ExecDone(k)
    \/ \E k \in 1..Len(inv) : ReadFileDone(k)
    \/ \E k \in 1..Len(inv) : DeleteFileDone(k)
    \/ LoadFFmpegDone
    \/ \E b \in BOOLEAN, items \in PasteInputs : AppHandlePaste(b, items)
    \/ \E r \in readers : AppPasteOnload(r)

SpecPaste == InitRuns /\ [][NextPaste]_vars

IsImageFile(item) == item.image /\ item.file # 0

\* C22: one paste event starts at most one degrade invocation.  The file
\* the handler picks is that of the first clipboard item that is an image
\* and yields a file (image items without a file are skipped), and none
\* when there are no items or no such item; a step that starts a reader
\* starts exactly one, for a pasted file, and starts no invocation and
\* changes no state; the onload of a reader calls the degrade entry point
\* once, with that image.
C22_OnePasteOneInvocation ==
    /\ [](\A h \in BOOLEAN, items \in PasteInputs :
            IF h /\ \E i \in 1..Len(items) : IsImageFile(items[i])
            THEN \E i \in 1..Len(items) :
                    /\ IsImageFile(items[i])
                    /\ \A j \in 1..(i - 1) : ~IsImageFile(items[j])
                    /\ PastedFile(h, items) = items[i].file
            ELSE PastedFile(h, items) = 0)
    /\ [][ /\ readers' # readers /\ readers \subseteq readers'
              => /\ \E i \in Images : readers' = readers \cup {[via |-> "paste", img |-> i]}
                 /\ Cardinality(readers') = Cardinality(readers) + 1
                 /\ inv' = inv
                 /\ state' = state
                 /\ ffmpegFileOutputName' = ffmpegFileOutputName
           /\ readers' # readers /\ readers' \subseteq readers
              => \E r \in readers :
                    /\ readers' = readers \ {r}
                    /\ Len(inv') <= Len(inv) + 1
                    /\ \A k \in DOMAIN inv : PcOf(k)' = PcOf(k)
                    /\ lastCall'.via = "paste"
                    /\ lastCall'.fileSrc = DataURL(r.img)
                    /\ UploadedSource' = DataURL(r.img)
           /\ readers' \subseteq readers \/ readers \subseteq readers'
           /\ Len(inv') > Len(inv) => readers' # readers ]_vars

\* A second paste has started its invocation while the result of the first
\* is displayed.
C22_Witness ==
    /\ lastCall.via = "paste"
    /\ lastCall.outcome = "started"
    /\ Len(inv) = 2
    /\ inv[1].pc = "done"
    /\ InFlight(2)
    /\ readers = {}
====
